---- MODULE Spec2Model ----
(***************************************************************************)
(* SimulationEngine (simulation/engine.py), the four components it        *)
(* drives (simulation/components.py) and HealthcareSystemSimulation        *)
(* (simulation/core.py), which drives the same components, as a state      *)
(* machine.                                                                *)
(*                                                                         *)
(* Encodings.                                                              *)
(*  - A datetime is an integer number of half days; timedelta(days=1) is   *)
(*    Day half days, so an end_date that is not a whole number of days     *)
(*    after start_date is representable.                                   *)
(*  - A float is a fixed-point integer, Scale standing for 1.0.  Every     *)
(*    input of the model is a multiple of Scale/10 and no mean is taken    *)
(*    over more than two values, so every division of the model is exact.  *)
(*    float('nan') is NaN, a value outside the range of every number the   *)
(*    model computes; no operator does arithmetic on it.                   *)
(*  - A dict is a function whose DOMAIN is the set of keys; a list is a    *)
(*    sequence; an object is a record of its fields.                       *)
(*  - An exception leaving a call is the call's outcome; the state the     *)
(*    call had reached when it was raised is kept.                         *)
(*  - np.random is the process-global generator: each draw is an input of  *)
(*    the action that makes it, chosen freely.                             *)
(***************************************************************************)
EXTENDS Integers, Sequences, FiniteSets, TLC

Scale == 1000

Day == 2

NoiseStd == 100

DefaultFunding == 1000000

StartDate == 2

MaxSpan == 4

MaxCalls == 3

NaN == 0 - (Scale * Scale)

None == "None"

InsuredCoverage == (7 * Scale) \div 10

DefaultQuality == Scale \div 2

(* ---------------------------------------------------------------- dicts *)

EmptyDict == <<>>

Put(d, k, v) == [x \in (DOMAIN d) \cup {k} |-> IF x = k THEN v ELSE d[x]]

DictUpdate(d, other) ==
    [x \in (DOMAIN d) \cup (DOMAIN other) |->
        IF x \in DOMAIN other THEN other[x] ELSE d[x]]

Get(d, k, default) == IF k \in DOMAIN d THEN d[k] ELSE default

RECURSIVE SumOver(_, _)
SumOver(f, S) ==
    IF S = {} THEN 0
    ELSE LET x == CHOOSE y \in S : TRUE
         IN f[x] + SumOver(f, S \ {x})

Min(a, b) == IF a <= b THEN a ELSE b

Max(a, b) == IF a >= b THEN a ELSE b

(* np.mean of the values of a dict: nan (and a warning, no exception) on  *)
(* an empty one.                                                          *)
np_mean(f) ==
    IF DOMAIN f = {} THEN NaN
    ELSE SumOver(f, DOMAIN f) \div Cardinality(DOMAIN f)

(* datetime.isoformat(): the date as text, another type than the date.    *)
isoformat(d) == <<"iso", d>>

(* ------------------------------------------------------------- inputs *)

Locations == {[id |-> "l1", type |-> "district"]}

Facilities ==
    { [id |-> "f1", capacity |-> 100, staff_count |-> 0, quality_score |-> 800,
       equipment |-> [xray |-> 2, mri |-> 1]],
      [id |-> "f2", capacity |-> 10, staff_count |-> 20, quality_score |-> 800,
       equipment |-> EmptyDict] }

Workers ==
    { [id |-> "w1", facility_id |-> "f1", qualifications |-> <<"MBBS", "MD">>,
       performance_score |-> 900] }

Patients ==
    { [id |-> "p1", name |-> "John Doe", insurance_status |-> "insured",
       medical_history |-> <<>>, current_conditions |-> <<"fever">>],
      [id |-> "p2", name |-> "Jane Doe", insurance_status |-> "partial",
       medical_history |-> <<>>, current_conditions |-> <<>>] }

(* ids the queries are asked about: one that can be registered, one that *)
(* never is                                                               *)
FacilityIds == {"f1", "f0"}

PatientIds == {"p1", "p0"}

NormalDraws == {0 - NoiseStd, NoiseStd}

TrainingCatalog ==
    {"advanced_care", "specialized_treatment", "emergency_response", "quality_improvement"}

(* ----------------------------------------- HealthcareInfrastructure *)

Infra_init == [facilities |-> EmptyDict, resources |-> EmptyDict]

Infra_add_facility(infra, facility) ==
    [infra EXCEPT !.facilities = Put(@, facility.id, facility)]

base_utilization(facility) ==
    Min((facility.staff_count * 10 * Scale) \div facility.capacity, Scale)

(* mutant: an unknown id is looked up as a facility without staff *)
get_facility_utilization_unguarded(infra, facility_id, noise) ==
    IF facility_id \notin DOMAIN infra.facilities THEN Min(0 + noise, Scale)
    ELSE Min(base_utilization(infra.facilities[facility_id]) + noise, Scale)

get_facility_utilization(infra, facility_id, noise) ==
    IF facility_id \notin DOMAIN infra.facilities THEN 0
    ELSE Min(base_utilization(infra.facilities[facility_id]) + noise, Scale)

(* mutant: the score is stored as given *)
update_facility_quality_unclamped(infra, facility_id, quality_score) ==
    IF facility_id \in DOMAIN infra.facilities
    THEN [infra EXCEPT !.facilities[facility_id].quality_score = quality_score]
    ELSE infra

update_facility_quality(infra, facility_id, quality_score) ==
    IF facility_id \in DOMAIN infra.facilities
    THEN [infra EXCEPT !.facilities[facility_id].quality_score =
                           Max(0, Min(Scale, quality_score))]
    ELSE infra

(* ----------------------------------------------- WorkforceDevelopment *)

Workforce_init == [workers |-> EmptyDict, training_programs |-> EmptyDict]

(* mutant: a training list that exists is kept *)
Workforce_add_worker_keeps_list(wf, worker) ==
    [wf EXCEPT !.workers = Put(@, worker.id, worker),
               !.training_programs =
                   IF worker.id \in DOMAIN @ THEN @ ELSE Put(@, worker.id, <<>>)]

Workforce_add_worker(wf, worker) ==
    [wf EXCEPT !.workers = Put(@, worker.id, worker),
               !.training_programs = Put(@, worker.id, <<>>)]

InList(x, s) == \E i \in 1..Len(s) : s[i] = x

(* mutant: the list of an unregistered worker is created on demand *)
assign_training_any_worker(wf, worker_id, program) ==
    IF ~InList(program, Get(wf.training_programs, worker_id, <<>>))
    THEN [wf EXCEPT !.training_programs =
                        Put(@, worker_id, Append(Get(@, worker_id, <<>>), program))]
    ELSE wf

(* mutant: the program is appended without looking for it in the list *)
assign_training_always_appends(wf, worker_id, program) ==
    IF worker_id \in DOMAIN wf.workers
    THEN [wf EXCEPT !.training_programs[worker_id] = Append(@, program)]
    ELSE wf

assign_training(wf, worker_id, program) ==
    IF worker_id \in DOMAIN wf.workers
    THEN IF ~InList(program, wf.training_programs[worker_id])
         THEN [wf EXCEPT !.training_programs[worker_id] = Append(@, program)]
         ELSE wf
    ELSE wf

(* ------------------------------------------------ HealthcareFinancing *)

Financing_init == [insurance_coverage |-> EmptyDict, facility_funding |-> EmptyDict]

set_insurance_coverage(fin, patient_id, coverage) ==
    [fin EXCEPT !.insurance_coverage = Put(@, patient_id, Max(0, Min(Scale, coverage)))]

allocate_funding(fin, facility_id, amount) ==
    [fin EXCEPT !.facility_funding = Put(@, facility_id, amount)]

calculate_coverage_rate(fin) ==
    IF DOMAIN fin.insurance_coverage = {} THEN 0
    ELSE SumOver(fin.insurance_coverage, DOMAIN fin.insurance_coverage)
            \div Cardinality(DOMAIN fin.insurance_coverage)

(* ------------------------------------------------------ DigitalHealth *)

Digital_init == [electronic_records |-> EmptyDict, telemedicine_sessions |-> EmptyDict]

update_electronic_record(dh, patient_id, record_data) ==
    [dh EXCEPT !.electronic_records =
        Put(@, patient_id, DictUpdate(Get(@, patient_id, EmptyDict), record_data))]

record_telemedicine_session(dh, patient_id) ==
    [dh EXCEPT !.telemedicine_sessions =
        Put(@, patient_id, Append(Get(@, patient_id, <<>>), "session_recorded"))]

get_patient_history(dh, patient_id) == Get(dh.electronic_records, patient_id, EmptyDict)

(* --------------------------------------------------- SimulationEngine *)

VARIABLES
    engine,     \* the SimulationEngine object
    twin,       \* a second engine, built and fed like the first (TwinSpec)
    simulation, \* the HealthcareSystemSimulation object of simulation/core.py
    pc,         \* "idle", or "run" while run() is inside its loop
    lastOp,     \* the method called last
    outcome,    \* how it ended: "ok", the exception that left it, or "running"
    ret,        \* what it returned
    run_call,   \* the call of run() in progress or just ended: state at entry, steps made
    calls       \* number of calls made so far that can change the engine

vars == <<engine, twin, simulation, pc, lastOp, outcome, ret, run_call, calls>>

EmptyMetrics ==
    [facility_utilization |-> <<>>, healthcare_quality |-> <<>>,
     insurance_coverage |-> <<>>, digital_health_adoption |-> <<>>]

SimulationEngine_init(start_date, end_date) ==
    [start_date |-> start_date,
     end_date |-> end_date,
     current_date |-> start_date,
     infrastructure |-> Infra_init,
     workforce |-> Workforce_init,
     financing |-> Financing_init,
     digital_health |-> Digital_init,
     locations |-> EmptyDict,
     metrics |-> EmptyMetrics]

add_location(e, location) ==
    [e EXCEPT !.locations = Put(@, location.id, location)]

add_facility(e, facility) ==
    [e EXCEPT !.infrastructure = Infra_add_facility(@, facility),
              !.financing = allocate_funding(@, facility.id, DefaultFunding)]

(* mutant: the worker is registered and the basic programme not assigned *)
add_healthcare_worker_untrained(e, worker) ==
    [e EXCEPT !.workforce = Workforce_add_worker(@, worker)]

add_healthcare_worker(e, worker) ==
    [e EXCEPT !.workforce =
        assign_training(Workforce_add_worker(@, worker), worker.id, "basic_healthcare")]

(* mutant: the flat policy, 0.7 whatever the status *)
PatientCoverage_flat(patient) == InsuredCoverage

PatientCoverage(patient) ==
    IF patient.insurance_status = "insured" THEN InsuredCoverage ELSE 0

PatientRecord(patient) ==
    [patient_info |-> patient.name,
     medical_history |-> patient.medical_history,
     current_conditions |-> patient.current_conditions]

(* mutant: the coverage is set and no electronic record created *)
add_patient_no_record(e, patient) ==
    [e EXCEPT !.financing = set_insurance_coverage(@, patient.id, PatientCoverage(patient))]

add_patient(e, patient) ==
    [e EXCEPT !.financing = set_insurance_coverage(@, patient.id, PatientCoverage(patient)),
              !.digital_health = update_electronic_record(@, patient.id, PatientRecord(patient))]

FacilityWorkers(e, facility_id) ==
    {w \in DOMAIN e.workforce.workers : e.workforce.workers[w].facility_id = facility_id}

FacilityQuality(e, facility_id) ==
    LET workers == FacilityWorkers(e, facility_id)
    IN  IF workers # {}
        THEN np_mean([w \in workers |-> e.workforce.workers[w].performance_score])
        ELSE DefaultQuality

(* mutant: the means are taken without the test for an empty list *)
simulate_facility_operations_unguarded(e, noise) ==
    LET ids == DOMAIN e.infrastructure.facilities
        utilizations == [f \in ids |-> get_facility_utilization(e.infrastructure, f, noise[f])]
        qualities == [f \in ids |-> FacilityQuality(e, f)]
    IN  [e EXCEPT !.metrics.facility_utilization =
                      Append(@, <<e.current_date, np_mean(utilizations)>>),
                  !.metrics.healthcare_quality =
                      Append(@, <<e.current_date, np_mean(qualities)>>)]

simulate_facility_operations(e, noise) ==
    LET ids == DOMAIN e.infrastructure.facilities
        utilizations == [f \in ids |-> get_facility_utilization(e.infrastructure, f, noise[f])]
        qualities == [f \in ids |-> FacilityQuality(e, f)]
        avg_utilization == IF ids # {} THEN np_mean(utilizations) ELSE 0
        avg_quality == IF ids # {} THEN np_mean(qualities) ELSE 0
    IN  [e EXCEPT !.metrics.facility_utilization = Append(@, <<e.current_date, avg_utilization>>),
                  !.metrics.healthcare_quality = Append(@, <<e.current_date, avg_quality>>)]

RECURSIVE PatientVisits(_, _, _)
PatientVisits(dh, visiting, date) ==
    IF visiting = {} THEN dh
    ELSE LET patient_id == CHOOSE p \in visiting : TRUE
         IN PatientVisits(
                update_electronic_record(record_telemedicine_session(dh, patient_id),
                                         patient_id, [last_visit |-> isoformat(date)]),
                visiting \ {patient_id}, date)

(* mutant: the visit is stamped with the date after the day's advance *)
simulate_patient_care_next_day(e, visiting) ==
    [e EXCEPT !.digital_health = PatientVisits(@, visiting, e.current_date + Day)]

(* visiting: the patients whose draw fell below 0.1 *)
simulate_patient_care(e, visiting) ==
    [e EXCEPT !.digital_health = PatientVisits(@, visiting, e.current_date)]

RECURSIVE TrainWorkers(_, _, _)
TrainWorkers(wf, ids, training) ==
    IF ids = {} THEN wf
    ELSE LET worker_id == CHOOSE w \in ids : TRUE
         IN TrainWorkers(
                IF training[worker_id] = None THEN wf
                ELSE assign_training(wf, worker_id, training[worker_id]),
                ids \ {worker_id}, training)

(* mutant: a worker who completes a training gets the top performance   *)
(* score                                                                 *)
simulate_workforce_development_rewards(e, training) ==
    [e EXCEPT !.workforce =
        [TrainWorkers(@, DOMAIN e.workforce.workers, training) EXCEPT
            !.workers = [w \in DOMAIN e.workforce.workers |->
                            IF training[w] = None THEN e.workforce.workers[w]
                            ELSE [e.workforce.workers[w] EXCEPT !.performance_score = Scale]]]]

(* training[w]: None when w's draw was not below 0.05, else the program   *)
(* np.random.choice picked                                                *)
simulate_workforce_development(e, training) ==
    [e EXCEPT !.workforce = TrainWorkers(@, DOMAIN e.workforce.workers, training)]

calculate_metrics(e) ==
    LET coverage == np_mean(e.financing.insurance_coverage)
        e1 == [e EXCEPT !.metrics.insurance_coverage = Append(@, <<e.current_date, coverage>>)]
        n_records == Cardinality(DOMAIN e.digital_health.electronic_records)
        n_covered == Cardinality(DOMAIN e.financing.insurance_coverage)
    IN  IF n_covered = 0
        THEN [engine |-> e1, outcome |-> "ZeroDivisionError"]
        ELSE [engine |-> [e1 EXCEPT !.metrics.digital_health_adoption =
                              Append(@, <<e.current_date, (n_records * Scale) \div n_covered>>)],
              outcome |-> "ok"]

(* mutant: the completion test misses the day current_date = end_date *)
Completed_strict(e) == e.current_date > e.end_date

Completed(e) == e.current_date >= e.end_date

(* mutant: the new date is computed and not stored *)
AdvanceTime_forgotten(e) == e

AdvanceTime(e) == [e EXCEPT !.current_date = @ + Day]

(* mutant: the completion test is made after the day's work *)
step_checks_last(e, draws) ==
    LET e1 == simulate_facility_operations(e, draws.noise)
        e2 == simulate_patient_care(e1, draws.visiting)
        e3 == simulate_workforce_development(e2, draws.training)
        r  == calculate_metrics(e3)
    IN  IF r.outcome # "ok" THEN r
        ELSE IF Completed(e)
             THEN [engine |-> r.engine, outcome |-> "StopIteration"]
             ELSE [engine |-> AdvanceTime(r.engine), outcome |-> "ok"]

step(e, draws) ==
    IF Completed(e)
    THEN [engine |-> e, outcome |-> "StopIteration"]
    ELSE LET e1 == simulate_facility_operations(e, draws.noise)
             e2 == simulate_patient_care(e1, draws.visiting)
             e3 == simulate_workforce_development(e2, draws.training)
             r  == calculate_metrics(e3)
         IN  IF r.outcome = "ok"
             THEN [engine |-> AdvanceTime(r.engine), outcome |-> "ok"]
             ELSE r

get_metrics(e) == e.metrics

get_facility_summary(e, facility_id, noise) ==
    [utilization |-> get_facility_utilization(e.infrastructure, facility_id, noise),
     quality |-> np_mean([w \in FacilityWorkers(e, facility_id) |->
                              e.workforce.workers[w].performance_score]),
     funding |-> Get(e.financing.facility_funding, facility_id, 0)]

get_patient_summary(e, patient_id) ==
    [insurance_coverage |-> Get(e.financing.insurance_coverage, patient_id, 0),
     telemedicine_sessions |-> Len(Get(e.digital_health.telemedicine_sessions, patient_id, <<>>)),
     health_record |-> get_patient_history(e.digital_health, patient_id)]

(* ----------------------------------------- HealthcareSystemSimulation *)

(* The class as its methods are written; the component class              *)
(* MedicalTourism that core.py imports and constructs is defined nowhere  *)
(* and holds no state any method below reads.                             *)
HealthcareSystemSimulation_init(start_date, end_date) ==
    [start_date |-> start_date,
     end_date |-> end_date,
     current_date |-> start_date,
     locations |-> EmptyDict,
     infrastructure |-> Infra_init,
     workforce |-> Workforce_init,
     financing |-> Financing_init,
     digital_health |-> Digital_init,
     metrics |-> EmptyDict]

Simulation_add_location(s, location) ==
    [s EXCEPT !.locations = Put(@, location.id, location)]

Simulation_add_facility(s, facility) ==
    [s EXCEPT !.infrastructure = Infra_add_facility(@, facility)]

Simulation_add_healthcare_worker(s, worker) ==
    [s EXCEPT !.workforce = Workforce_add_worker(@, worker)]

Simulation_add_patient(s, patient) ==
    [s EXCEPT !.financing = set_insurance_coverage(@, patient.id, (7 * Scale) \div 10)]

calculate_facility_utilization(s, facility_id, noise) ==
    get_facility_utilization(s.infrastructure, facility_id, noise)

(* sum(equipment.values()) / len(equipment): the mean count, 0.5 for an  *)
(* empty mapping                                                          *)
equipment_quality(facility) ==
    IF DOMAIN facility.equipment # {}
    THEN (SumOver(facility.equipment, DOMAIN facility.equipment) * Scale)
            \div Cardinality(DOMAIN facility.equipment)
    ELSE Scale \div 2

(* for a registered facility_id; any other id ends the call in KeyError  *)
calculate_healthcare_quality(s, facility_id) ==
    LET facility == s.infrastructure.facilities[facility_id]
        workers == {w \in DOMAIN s.workforce.workers :
                        s.workforce.workers[w].facility_id = facility_id}
        worker_scores == [w \in workers |-> s.workforce.workers[w].performance_score]
    IN  IF workers = {} THEN facility.quality_score
        ELSE (np_mean(worker_scores) * 6 + equipment_quality(facility) * 4) \div 10

simulate_patient_flow(s, visiting) ==
    [s EXCEPT !.digital_health = PatientVisits(@, visiting, s.current_date)]

update_metrics(s, noise) ==
    LET ids == DOMAIN s.infrastructure.facilities
        facility_utilizations == [f \in ids |-> calculate_facility_utilization(s, f, noise[f])]
        healthcare_qualities == [f \in ids |-> calculate_healthcare_quality(s, f)]
    IN  [s EXCEPT !.metrics =
            Put(Put(@, "facility_utilization",
                    << <<s.current_date, np_mean(facility_utilizations)>> >>),
                "healthcare_quality",
                << <<s.current_date, np_mean(healthcare_qualities)>> >>)]

Simulation_step(s, draws) ==
    IF s.current_date >= s.end_date
    THEN [simulation |-> s, outcome |-> "StopIteration"]
    ELSE [simulation |-> AdvanceTime(update_metrics(simulate_patient_flow(s, draws.visiting),
                                                    draws.noise)),
          outcome |-> "ok"]

SimulationDraws(s) ==
    [noise : [DOMAIN s.infrastructure.facilities -> NormalDraws],
     visiting : SUBSET (DOMAIN s.financing.insurance_coverage)]

(* ------------------------------------------------------------- draws *)

Draws(e) ==
    [noise : [DOMAIN e.infrastructure.facilities -> NormalDraws],
     visiting : SUBSET (DOMAIN e.financing.insurance_coverage),
     training : [DOMAIN e.workforce.workers -> TrainingCatalog \cup {None}]]

(* ------------------------------------------------------------ actions *)

NoRun == [date |-> 0, metrics |-> EmptyMetrics, steps |-> 0]

Return(e, op, out, r) ==
    /\ engine' = e
    /\ lastOp' = op
    /\ outcome' = out
    /\ ret' = r
    /\ pc' = "idle"
    /\ run_call' = NoRun
    /\ UNCHANGED <<twin, simulation>>

(* The model follows the engine through MaxCalls calls that can change   *)
(* it (registrations, steps, sub-steps); queries are not counted.        *)
Counted == calls < MaxCalls /\ calls' = calls + 1

Query == pc = "idle" /\ UNCHANGED calls

Init ==
    /\ \E end_date \in (StartDate - 1)..(StartDate + MaxSpan) :
          engine = SimulationEngine_init(StartDate, end_date)
    /\ twin = engine
    /\ simulation = HealthcareSystemSimulation_init(engine.start_date, engine.end_date)
    /\ pc = "idle"
    /\ lastOp = "__init__"
    /\ outcome = "ok"
    /\ ret = None
    /\ run_call = NoRun
    /\ calls = 0

AddLocation ==
    \E location \in Locations :
       /\ pc = "idle"
       /\ Counted
       /\ Return(add_location(engine, location), "add_location", "ok", None)

AddFacility ==
    \E facility \in Facilities :
       /\ pc = "idle"
       /\ Counted
       /\ Return(add_facility(engine, facility), "add_facility", "ok", None)

AddHealthcareWorker ==
    \E worker \in Workers :
       /\ pc = "idle"
       /\ Counted
       /\ Return(add_healthcare_worker(engine, worker), "add_healthcare_worker", "ok", None)

AddPatient ==
    \E patient \in Patients :
       /\ pc = "idle"
       /\ Counted
       /\ Return(add_patient(engine, patient), "add_patient", "ok", None)

(* step() on a completed engine changes nothing and is not counted.      *)
CountedStep == IF Completed(engine) THEN UNCHANGED calls ELSE Counted

Step ==
    /\ pc = "idle"
    /\ \E draws \in Draws(engine) :
          LET r == step(engine, draws)
          IN  /\ CountedStep
              /\ Return(r.engine, "step", r.outcome, None)

(* The steps run() makes from e when none of them fails: the days left, *)
(* a started day counting as one.                                        *)
StepsLeft(e) ==
    IF Completed(e) THEN 0
    ELSE (e.end_date - e.current_date + Day - 1) \div Day

(* mutant: run() starts the simulation over from start_date *)
Run_restarts ==
    /\ pc = "idle"
    /\ pc' = "run"
    /\ lastOp' = "run"
    /\ outcome' = "running"
    /\ ret' = None
    /\ run_call' = [date |-> engine.start_date, metrics |-> engine.metrics, steps |-> 0]
    /\ engine' = [engine EXCEPT !.current_date = engine.start_date]
    /\ UNCHANGED <<twin, simulation, calls>>

Run ==
    /\ pc = "idle"
    /\ calls + StepsLeft(engine) <= MaxCalls
    /\ pc' = "run"
    /\ lastOp' = "run"
    /\ outcome' = "running"
    /\ ret' = None
    /\ run_call' = [date |-> engine.current_date, metrics |-> engine.metrics, steps |-> 0]
    /\ UNCHANGED <<engine, twin, simulation, calls>>

RunReturn(e, out) ==
    /\ engine' = e
    /\ pc' = "idle"
    /\ outcome' = out
    /\ UNCHANGED <<twin, simulation, lastOp, ret, run_call>>

(* mutant: the loop stops one day early *)
RunLoop_stops_early ==
    /\ pc = "run"
    /\ IF engine.current_date + Day < engine.end_date
       THEN \E draws \in Draws(engine) :
               LET r == step(engine, draws)
               IN  /\ Counted
                   /\ IF r.outcome = "ok"
                      THEN /\ engine' = r.engine
                           /\ run_call' = [run_call EXCEPT !.steps = @ + 1]
                           /\ UNCHANGED <<twin, simulation, pc, lastOp, outcome, ret>>
                      ELSE IF r.outcome = "StopIteration"
                           THEN RunReturn(r.engine, "ok")
                           ELSE RunReturn(r.engine, r.outcome)
       ELSE /\ UNCHANGED calls
            /\ RunReturn(engine, "ok")

RunLoop ==
    /\ pc = "run"
    /\ IF engine.current_date < engine.end_date
       THEN \E draws \in Draws(engine) :
               LET r == step(engine, draws)
               IN  /\ Counted
                   /\ IF r.outcome = "ok"
                      THEN /\ engine' = r.engine
                           /\ run_call' = [run_call EXCEPT !.steps = @ + 1]
                           /\ UNCHANGED <<twin, simulation, pc, lastOp, outcome, ret>>
                      ELSE IF r.outcome = "StopIteration"
                           THEN RunReturn(r.engine, "ok")
                           ELSE RunReturn(r.engine, r.outcome)
       ELSE /\ UNCHANGED calls
            /\ RunReturn(engine, "ok")

GetMetrics ==
    /\ Query
    /\ Return(engine, "get_metrics", "ok", get_metrics(engine))

GetFacilityUtilization ==
    /\ Query
    /\ \E facility_id \in FacilityIds, noise \in NormalDraws :
          Return(engine, "get_facility_utilization", "ok",
                 [arg |-> facility_id,
                  value |-> get_facility_utilization(engine.infrastructure, facility_id, noise)])

GetFacilitySummary ==
    /\ Query
    /\ \E facility_id \in FacilityIds, noise \in NormalDraws :
          Return(engine, "get_facility_summary", "ok",
                 [arg |-> facility_id, value |-> get_facility_summary(engine, facility_id, noise)])

GetPatientSummary ==
    /\ Query
    /\ \E patient_id \in PatientIds :
          Return(engine, "get_patient_summary", "ok",
                 [arg |-> patient_id, value |-> get_patient_summary(engine, patient_id)])

Next ==
    \/ AddLocation
    \/ AddFacility
    \/ AddHealthcareWorker
    \/ AddPatient
    \/ Step
    \/ Run
    \/ RunLoop
    \/ GetMetrics
    \/ GetFacilityUtilization
    \/ GetFacilitySummary
    \/ GetPatientSummary

Spec == Init /\ [][Next]_vars

(* ------------------------------------ the sub-steps called on their own *)

SimulateFacilityOperations ==
    /\ pc = "idle"
    /\ Counted
    /\ \E noise \in [DOMAIN engine.infrastructure.facilities -> NormalDraws] :
          Return(simulate_facility_operations(engine, noise),
                 "simulate_facility_operations", "ok", None)

SimulatePatientCare ==
    /\ pc = "idle"
    /\ Counted
    /\ \E visiting \in SUBSET (DOMAIN engine.financing.insurance_coverage) :
          Return(simulate_patient_care(engine, visiting), "simulate_patient_care", "ok", None)

SimulateWorkforceDevelopment ==
    /\ pc = "idle"
    /\ Counted
    /\ \E training \in [DOMAIN engine.workforce.workers -> TrainingCatalog \cup {None}] :
          Return(simulate_workforce_development(engine, training),
                 "simulate_workforce_development", "ok", None)

CalculateMetrics ==
    /\ pc = "idle"
    /\ Counted
    /\ LET r == calculate_metrics(engine)
       IN Return(r.engine, "calculate_metrics", r.outcome, None)

SubNext ==
    \/ Next
    \/ SimulateFacilityOperations
    \/ SimulatePatientCare
    \/ SimulateWorkforceDevelopment
    \/ CalculateMetrics

(* The public interface together with the sub-steps of step() called    *)
(* directly, as the tests do.                                            *)
SpecSub == Init /\ [][SubNext]_vars

(* ------------------------------------- two engines given the same inputs *)

(* Both engines got the same call with the same argument: e and t are   *)
(* what it made of engine and of twin.                                   *)
Both(e, t, op) ==
    /\ pc = "idle"
    /\ Counted
    /\ engine' = e
    /\ twin' = t
    /\ lastOp' = op
    /\ outcome' = "ok"
    /\ UNCHANGED <<simulation, pc, ret, run_call>>

TwinAddLocation ==
    \E location \in Locations :
       Both(add_location(engine, location), add_location(twin, location), "add_location")

TwinAddFacility ==
    \E facility \in Facilities :
       Both(add_facility(engine, facility), add_facility(twin, facility), "add_facility")

TwinAddHealthcareWorker ==
    \E worker \in Workers :
       Both(add_healthcare_worker(engine, worker), add_healthcare_worker(twin, worker),
            "add_healthcare_worker")

TwinAddPatient ==
    \E patient \in Patients :
       Both(add_patient(engine, patient), add_patient(twin, patient), "add_patient")

(* Both engines step; each call draws from the process-global generator, *)
(* whose state is no input of either engine.                             *)
TwinStep ==
    /\ pc = "idle"
    /\ CountedStep
    /\ \E draws \in Draws(engine), twin_draws \in Draws(twin) :
          LET r == step(engine, draws)
              t == step(twin, twin_draws)
          IN  /\ engine' = r.engine
              /\ twin' = t.engine
              /\ lastOp' = "step"
              /\ outcome' = r.outcome
              /\ UNCHANGED <<simulation, pc, ret, run_call>>

TwinNext ==
    \/ TwinAddLocation
    \/ TwinAddFacility
    \/ TwinAddHealthcareWorker
    \/ TwinAddPatient
    \/ TwinStep

TwinSpec == Init /\ [][TwinNext]_vars

(* ------------------------------------ the components called directly *)

(* ids and values the component calls are made with: registered and     *)
(* unregistered ids, values inside and outside [0,1]                      *)
WorkerIds == {"w1", "w0"}

Programs == {"advanced_care", "basic_healthcare"}

(* A call of a component method that returns None: ret keeps its         *)
(* arguments.                                                             *)
Called(args) == [arg |-> args, value |-> None]

AssignTraining ==
    \E worker_id \in WorkerIds, program \in Programs :
       /\ pc = "idle"
       /\ Counted
       /\ Return([engine EXCEPT !.workforce = assign_training(@, worker_id, program)],
                 "assign_training", "ok", Called(<<worker_id, program>>))

(* WorkforceDevelopment defines no get_worker_qualifications: the call   *)
(* test_workforce_development makes ends in AttributeError.              *)
GetWorkerQualifications ==
    /\ Query
    /\ \E worker_id \in WorkerIds :
          Return(engine, "get_worker_qualifications", "AttributeError", Called(worker_id))

WorkforceNext ==
    \/ AddHealthcareWorker
    \/ AssignTraining
    \/ SimulateWorkforceDevelopment
    \/ GetWorkerQualifications

WorkforceSpec == Init /\ [][WorkforceNext]_vars

InsuranceStatuses == {"insured", "uninsured", "partial"}

CoverageRates == {0 - (Scale \div 2), (8 * Scale) \div 10, (3 * Scale) \div 2}

TreatmentCost == 1000 * Scale

(* add_patient with each status the data generator gives a patient; ret *)
(* keeps the patient passed.                                             *)
AddPatientWithStatus ==
    \E patient \in Patients, status \in InsuranceStatuses :
       LET p == [patient EXCEPT !.insurance_status = status]
       IN  /\ pc = "idle"
           /\ Counted
           /\ Return(add_patient(engine, p), "add_patient", "ok", Called(p))

SetInsuranceCoverage ==
    \E patient_id \in {p.id : p \in Patients}, coverage \in CoverageRates :
       /\ pc = "idle"
       /\ Counted
       /\ Return([engine EXCEPT !.financing = set_insurance_coverage(@, patient_id, coverage)],
                 "set_insurance_coverage", "ok", Called(<<patient_id, coverage>>))

CalculateCoverageRate ==
    /\ Query
    /\ Return(engine, "calculate_coverage_rate", "ok",
              [arg |-> None, value |-> calculate_coverage_rate(engine.financing)])

(* HealthcareFinancing defines no calculate_patient_cost: the call       *)
(* test_healthcare_financing makes ends in AttributeError.               *)
CalculatePatientCost ==
    /\ Query
    /\ \E patient_id \in PatientIds :
          Return(engine, "calculate_patient_cost", "AttributeError",
                 Called(<<patient_id, TreatmentCost>>))

FinancingNext ==
    \/ AddPatientWithStatus
    \/ SetInsuranceCoverage
    \/ Step
    \/ CalculateCoverageRate
    \/ CalculatePatientCost

FinancingSpec == Init /\ [][FinancingNext]_vars

QualityScores == {0 - (Scale \div 2), (6 * Scale) \div 10, (3 * Scale) \div 2}

UpdateFacilityQuality ==
    \E facility_id \in FacilityIds, quality_score \in QualityScores :
       /\ pc = "idle"
       /\ Counted
       /\ Return([engine EXCEPT !.infrastructure =
                                   update_facility_quality(@, facility_id, quality_score)],
                 "update_facility_quality", "ok", Called(<<facility_id, quality_score>>))

InfrastructureNext ==
    \/ AddFacility
    \/ UpdateFacilityQuality
    \/ GetFacilityUtilization

InfrastructureSpec == Init /\ [][InfrastructureNext]_vars

GetPatientHistory ==
    /\ Query
    /\ \E patient_id \in PatientIds :
          Return(engine, "get_patient_history", "ok",
                 [arg |-> patient_id,
                  value |-> get_patient_history(engine.digital_health, patient_id)])

LookupNext ==
    \/ AddFacility
    \/ AddPatient
    \/ Step
    \/ GetFacilityUtilization
    \/ GetPatientHistory
    \/ GetPatientSummary

(* The lookups by id, on stores filled by registrations and steps.       *)
LookupSpec == Init /\ [][LookupNext]_vars

(* ------------------------------------------ HealthcareSystemSimulation *)

SimulationReturn(s, op, out, r) ==
    /\ simulation' = s
    /\ lastOp' = op
    /\ outcome' = out
    /\ ret' = r
    /\ pc' = "idle"
    /\ run_call' = NoRun
    /\ UNCHANGED <<engine, twin>>

SimulationAddFacility ==
    \E facility \in Facilities :
       /\ pc = "idle"
       /\ Counted
       /\ SimulationReturn(Simulation_add_facility(simulation, facility),
                           "simulation.add_facility", "ok", None)

SimulationAddHealthcareWorker ==
    \E worker \in Workers :
       /\ pc = "idle"
       /\ Counted
       /\ SimulationReturn(Simulation_add_healthcare_worker(simulation, worker),
                           "simulation.add_healthcare_worker", "ok", None)

SimulationAddPatient ==
    \E patient \in Patients :
       /\ pc = "idle"
       /\ Counted
       /\ SimulationReturn(Simulation_add_patient(simulation, patient),
                           "simulation.add_patient", "ok", None)

CalculateHealthcareQuality ==
    /\ Query
    /\ \E facility_id \in FacilityIds :
          IF facility_id \in DOMAIN simulation.infrastructure.facilities
          THEN SimulationReturn(simulation, "simulation.calculate_healthcare_quality", "ok",
                                [arg |-> facility_id,
                                 value |-> calculate_healthcare_quality(simulation, facility_id)])
          ELSE SimulationReturn(simulation, "simulation.calculate_healthcare_quality",
                                "KeyError", Called(facility_id))

SimulationStep ==
    /\ pc = "idle"
    /\ \E draws \in SimulationDraws(simulation) :
          LET r == Simulation_step(simulation, draws)
          IN  /\ IF Completed(simulation) THEN UNCHANGED calls ELSE Counted
              /\ SimulationReturn(r.simulation, "simulation.step", r.outcome, None)

SimulationRun ==
    /\ pc = "idle"
    /\ calls + StepsLeft(simulation) <= MaxCalls
    /\ pc' = "simulation.run"
    /\ lastOp' = "simulation.run"
    /\ outcome' = "running"
    /\ ret' = None
    /\ run_call' = [date |-> simulation.current_date, metrics |-> simulation.metrics,
                    steps |-> 0]
    /\ UNCHANGED <<engine, twin, simulation, calls>>

SimulationRunLoop ==
    /\ pc = "simulation.run"
    /\ IF simulation.current_date < simulation.end_date
       THEN \E draws \in SimulationDraws(simulation) :
               LET r == Simulation_step(simulation, draws)
               IN  /\ Counted
                   /\ simulation' = r.simulation
                   /\ IF r.outcome = "ok"
                      THEN /\ run_call' = [run_call EXCEPT !.steps = @ + 1]
                           /\ UNCHANGED <<engine, twin, pc, lastOp, outcome, ret>>
                      ELSE /\ pc' = "idle"
                           /\ outcome' = "ok"
                           /\ UNCHANGED <<engine, twin, lastOp, ret, run_call>>
       ELSE /\ pc' = "idle"
            /\ outcome' = "ok"
            /\ UNCHANGED <<engine, twin, simulation, calls, lastOp, ret, run_call>>

SimulationNext ==
    \/ SimulationAddFacility
    \/ SimulationAddHealthcareWorker
    \/ SimulationAddPatient
    \/ CalculateHealthcareQuality
    \/ SimulationStep
    \/ SimulationRun
    \/ SimulationRunLoop

SimulationSpec == Init /\ [][SimulationNext]_vars

(* ------------------------------------------- workers and their training *)

MoreWorkers ==
    Workers \cup { [id |-> "w2", facility_id |-> "f2", qualifications |-> <<"MBBS", "FCPS">>,
                    performance_score |-> 700] }

(* add_healthcare_worker, also for an id registered before; ret keeps    *)
(* the worker passed, whether its id was registered at the call and the  *)
(* training list the id had then.                                        *)
AddAnyHealthcareWorker ==
    \E worker \in MoreWorkers :
       /\ pc = "idle"
       /\ Counted
       /\ Return(add_healthcare_worker(engine, worker), "add_healthcare_worker", "ok",
                 [arg |-> worker, value |-> None,
                  registered |-> worker.id \in DOMAIN engine.workforce.workers,
                  had |-> Get(engine.workforce.training_programs, worker.id, <<>>)])

TrainingNext ==
    \/ AddAnyHealthcareWorker
    \/ AddPatient
    \/ Step
    \/ AssignTraining

TrainingSpec == Init /\ [][TrainingNext]_vars

(* ============================================================ claims *)

MetricNames ==
    {"facility_utilization", "healthcare_quality", "insurance_coverage",
     "digital_health_adoption"}

DaysElapsed(e) == (e.current_date - e.start_date) \div Day

LastValue(series) == series[Len(series)][2]

NoPatients(e) == DOMAIN e.financing.insurance_coverage = {}

(* C1: under the public interface (add_*, step, run, queries) the four   *)
(* metric series always have the same length, the number of days by      *)
(* which current_date has advanced from start_date, also after a step    *)
(* that ended in an error and on an engine without patients.             *)
C1_OnePointPerDay ==
    \A m \in MetricNames : Len(engine.metrics[m]) = DaysElapsed(engine)

(* A step() call that returned normally: made directly, or by run().     *)
StepSucceeded ==
    \/ pc = "idle" /\ lastOp' = "step" /\ outcome' = "ok"
    \/ pc = "run" /\ run_call'.steps = run_call.steps + 1

(* C2: every successful step() advances current_date by exactly one     *)
(* day; no other operation (add_*, the queries, the sub-steps called on  *)
(* their own, a failed step) changes it; it never decreases.             *)
C2_DateAdvance ==
    [][/\ engine'.current_date >= engine.current_date
       /\ IF StepSucceeded
          THEN engine'.current_date = engine.current_date + Day
          ELSE engine'.current_date = engine.current_date]_vars

C2_Witness ==
    /\ lastOp = "step"
    /\ outcome = "ok"
    /\ engine.current_date = engine.start_date + Day + Day

(* C3: step() on an engine with current_date >= end_date raises          *)
(* StopIteration and leaves the whole engine as it was: date, metric     *)
(* series, sessions, records, training lists.                            *)
C3_StepWhenCompleted ==
    [][(pc = "idle" /\ engine.current_date >= engine.end_date /\ lastOp' = "step")
          => (outcome' = "StopIteration" /\ engine' = engine)]_vars

C3_Witness ==
    /\ lastOp = "step"
    /\ outcome = "StopIteration"
    /\ engine.current_date > engine.end_date
    /\ Len(engine.metrics.facility_utilization) > 0

WholeDays(e) == (e.end_date - e.start_date) % Day = 0

RunReturned == lastOp = "run" /\ pc = "idle"

(* C4: on an engine with at least one patient whose end_date is a whole  *)
(* number N >= 1 of days after start_date, run() ends normally with      *)
(* current_date = end_date, having made one step per day that was left   *)
(* and added one point per step to each series: N steps and N points     *)
(* when it starts from start_date with empty series.  It terminates:     *)
(* each pass of its loop returns or leaves fewer steps to make.          *)
C4_RunToEnd ==
    /\ [](( /\ RunReturned
            /\ WholeDays(engine)
            /\ run_call.date < engine.end_date
            /\ ~NoPatients(engine) )
          => /\ outcome = "ok"
             /\ engine.current_date = engine.end_date
             /\ run_call.steps = (engine.end_date - run_call.date) \div Day
             /\ \A m \in MetricNames :
                   Len(engine.metrics[m]) = Len(run_call.metrics[m]) + run_call.steps
             /\ (run_call.date = engine.start_date /\ run_call.metrics = EmptyMetrics)
                   => \A m \in MetricNames :
                         Len(engine.metrics[m]) = (engine.end_date - engine.start_date) \div Day)
    /\ [][(pc = "run" /\ ~NoPatients(engine))
             => \/ pc' = "idle"
                \/ engine'.end_date - engine'.current_date
                      < engine.end_date - engine.current_date]_vars

C4_Witness ==
    /\ RunReturned
    /\ outcome = "ok"
    /\ WholeDays(engine)
    /\ run_call.date = engine.start_date
    /\ run_call.metrics = EmptyMetrics
    /\ run_call.steps = 2
    /\ engine.current_date = engine.end_date

(* C5: run() on an engine with current_date >= end_date returns without  *)
(* raising and changes nothing of the engine, so a second run() leaves   *)
(* what the first one left.                                              *)
C5_RunWhenCompleted ==
    [][(engine.current_date >= engine.end_date /\ (lastOp' = "run" \/ pc = "run"))
          => /\ engine' = engine
             /\ pc = "run" => (pc' = "idle" /\ outcome' = "ok")]_vars

C5_Witness ==
    /\ RunReturned
    /\ outcome = "ok"
    /\ run_call.steps = 0
    /\ run_call.date >= engine.end_date
    /\ Len(engine.metrics.digital_health_adoption) > 0

(* C6: once current_date >= end_date, no step(), run(), add_* or query   *)
(* call brings current_date below end_date again, and step() and run()   *)
(* append no further point to any metric series.                         *)
C6_CompletedIsTerminal ==
    [][(engine.current_date >= engine.end_date)
          => /\ engine'.current_date >= engine'.end_date
             /\ (lastOp' \in {"step", "run"}) => engine'.metrics = engine.metrics]_vars

C6_Witness ==
    /\ lastOp = "add_patient"
    /\ engine.current_date >= engine.end_date
    /\ Len(engine.metrics.healthcare_quality) > 0

(* C7: constructing an engine with end_date <= start_date fails with     *)
(* InvalidRange, so no engine starts with current_date >= end_date.      *)
C7_InvalidRangeRejected ==
    lastOp = "__init__"
       => /\ engine.end_date <= engine.start_date => outcome = "InvalidRange"
          /\ outcome = "ok" => engine.current_date < engine.end_date

(* C8: a step on an engine whose coverage store is empty does not fail   *)
(* with a division by zero and appends 0.0 as the day's adoption value;  *)
(* with a non-empty store the value is |electronic_records| divided by   *)
(* the number of coverage entries.                                       *)
C8_AdoptionGuarded ==
    (lastOp = "step" /\ outcome # "StopIteration")
       => /\ outcome = "ok"
          /\ Len(engine.metrics.digital_health_adoption) > 0
          /\ LastValue(engine.metrics.digital_health_adoption) =
                IF NoPatients(engine) THEN 0
                ELSE (Cardinality(DOMAIN engine.digital_health.electronic_records) * Scale)
                         \div Cardinality(DOMAIN engine.financing.insurance_coverage)

(* C9: get_facility_utilization returns a value in [0,1] for every       *)
(* registered facility (capacity >= 1, staff_count >= 0) whatever the    *)
(* noise drawn.                                                          *)
C9_UtilizationInUnitInterval ==
    (lastOp = "get_facility_utilization" /\ ret.arg \in DOMAIN engine.infrastructure.facilities)
       => (0 <= ret.value /\ ret.value <= Scale)

(* C10: two engines constructed with the same dates and given the same   *)
(* entities and the same calls hold identical metric series after every  *)
(* step both completed: nothing but the engine's own inputs decides its  *)
(* output.                                                               *)
C10_SameInputsSameMetrics ==
    (lastOp = "step" /\ outcome = "ok") => engine.metrics = twin.metrics

NoDuplicates(s) == \A i, j \in 1..Len(s) : s[i] = s[j] => i = j

C13_QualificationsQuery ==
    (lastOp = "get_worker_qualifications" /\ ret.arg \in DOMAIN engine.workforce.workers)
       => /\ outcome = "ok"
          /\ ret.value = engine.workforce.workers[ret.arg].qualifications
                            \o engine.workforce.training_programs[ret.arg]

CoverageStore(e) == e.financing.insurance_coverage

(* C12: the financing component answers a patient-cost query with        *)
(* treatmentCost x (1 - coverage), the coverage of a patient without a   *)
(* stored value counting as 0.0, and leaves the coverage store as it     *)
(* was.                                                                  *)
C12_PatientCost ==
    [][(lastOp' = "calculate_patient_cost")
          => /\ outcome' = "ok"
             /\ ret'.value = (ret'.arg[2] * (Scale - Get(CoverageStore(engine), ret'.arg[1], 0)))
                                \div Scale
             /\ CoverageStore(engine') = CoverageStore(engine)]_vars

(* C14: the insurance_coverage value a step appends is the financing     *)
(* component's coverage rate: the mean of the stored coverage values,    *)
(* and 0.0 when none is stored.                                          *)
C14_CoveragePointIsCoverageRate ==
    (lastOp = "step" /\ outcome # "StopIteration")
       => /\ Len(engine.metrics.insurance_coverage) > 0
          /\ LastValue(engine.metrics.insurance_coverage) =
                calculate_coverage_rate(engine.financing)

InUnitInterval(x) == 0 <= x /\ x <= Scale

(* C15: whatever rates set_insurance_coverage and add_patient were       *)
(* called with, every stored coverage value lies in [0,1], the value     *)
(* stored for a patient is the one set last (clamped), and every point   *)
(* of the insurance_coverage series lies in [0,1].                       *)
C15_CoverageInUnitInterval ==
    /\ \A p \in DOMAIN CoverageStore(engine) : InUnitInterval(CoverageStore(engine)[p])
    /\ lastOp = "set_insurance_coverage"
          => /\ ret.arg[1] \in DOMAIN CoverageStore(engine)
             /\ CoverageStore(engine)[ret.arg[1]] = Max(0, Min(Scale, ret.arg[2]))
    /\ \A i \in 1..Len(engine.metrics.insurance_coverage) :
          InUnitInterval(engine.metrics.insurance_coverage[i][2])

(* C17: add_patient(p) stores coverage 0.7 for p.id when p is insured    *)
(* and 0.0 for every other status, creates an electronic record for      *)
(* p.id, and leaves the coverage of every other patient.                 *)
C17_AddPatientCoverage ==
    [][(lastOp' = "add_patient")
          => LET p == ret'.arg
             IN  /\ DOMAIN CoverageStore(engine') = DOMAIN CoverageStore(engine) \cup {p.id}
                 /\ CoverageStore(engine')[p.id] =
                       IF p.insurance_status = "insured" THEN (7 * Scale) \div 10 ELSE 0
                 /\ p.id \in DOMAIN engine'.digital_health.electronic_records
                 /\ \A q \in DOMAIN CoverageStore(engine) \ {p.id} :
                       CoverageStore(engine')[q] = CoverageStore(engine)[q]]_vars

C17_Witness ==
    /\ lastOp = "add_patient"
    /\ ret.arg.insurance_status = "uninsured"
    /\ ret.arg.id = "p2"
    /\ DOMAIN CoverageStore(engine) = {"p1", "p2"}
    /\ CoverageStore(engine)["p1"] = (8 * Scale) \div 10
    /\ CoverageStore(engine)["p2"] = 0

Registered(e) == e.infrastructure.facilities

(* C16: update_facility_quality(id, score) on a registered id sets that  *)
(* facility's quality_score to score clamped into [0,1] and changes      *)
(* nothing else; on an unregistered id it changes nothing and raises     *)
(* nothing; every registered facility's quality_score is in [0,1].       *)
C16_UpdateFacilityQuality ==
    /\ [](\A f \in DOMAIN Registered(engine) :
             InUnitInterval(Registered(engine)[f].quality_score))
    /\ [][(lastOp' = "update_facility_quality")
             => LET id == ret'.arg[1]
                    score == ret'.arg[2]
                IN  /\ outcome' = "ok"
                    /\ IF id \in DOMAIN Registered(engine)
                       THEN /\ Registered(engine')[id].quality_score =
                                  IF score < 0 THEN 0 ELSE IF score > Scale THEN Scale ELSE score
                            /\ engine' = [engine EXCEPT
                                             !.infrastructure.facilities[id].quality_score =
                                                 Registered(engine')[id].quality_score]
                       ELSE engine' = engine]_vars

C16_Witness ==
    /\ lastOp = "update_facility_quality"
    /\ ret.arg = <<"f1", (3 * Scale) \div 2>>
    /\ DOMAIN Registered(engine) = {"f1", "f2"}
    /\ Registered(engine)["f1"].quality_score = Scale
    /\ Registered(engine)["f2"].quality_score = (8 * Scale) \div 10

TrainingList(e, w) == e.workforce.training_programs[w]

IsPrefix(s, t) == Len(s) <= Len(t) /\ \A i \in 1..Len(s) : s[i] = t[i]

(* C18: add_healthcare_worker(w) leaves w with the training list         *)
(* [basic_healthcare]; basic_healthcare stays the first program of every *)
(* registered worker's list, and step() and run() only append to the     *)
(* lists: each list before the call is a prefix of the list after it.    *)
C18_BasicHealthcareFirst ==
    /\ [](\A w \in DOMAIN engine.workforce.workers :
             /\ Len(TrainingList(engine, w)) >= 1
             /\ TrainingList(engine, w)[1] = "basic_healthcare")
    /\ [][(lastOp' = "add_healthcare_worker")
             => \E worker \in Workers :
                   /\ worker.id \in DOMAIN engine'.workforce.workers
                   /\ TrainingList(engine', worker.id) = <<"basic_healthcare">>]_vars
    /\ [][(lastOp' \in {"step", "run"})
             => \A w \in DOMAIN engine.workforce.workers :
                   IsPrefix(TrainingList(engine, w), TrainingList(engine', w))]_vars

C18_Witness ==
    /\ lastOp = "step"
    /\ outcome = "ok"
    /\ "w1" \in DOMAIN engine.workforce.workers
    /\ TrainingList(engine, "w1") = <<"basic_healthcare", "emergency_response">>

(* C19: after simulate_patient_care() every registered patient has an    *)
(* entry in the telemedicine session log, whatever the visit draws.      *)
C19_SessionAfterPatientCare ==
    (lastOp = "simulate_patient_care")
       => \A p \in DOMAIN CoverageStore(engine) :
             p \in DOMAIN engine.digital_health.telemedicine_sessions

Stores(e) ==
    <<DOMAIN e.infrastructure.facilities, DOMAIN e.financing.insurance_coverage,
      DOMAIN e.digital_health.electronic_records,
      DOMAIN e.digital_health.telemedicine_sessions>>

(* C20: a lookup with an id that was never registered returns normally   *)
(* and changes nothing: get_facility_utilization returns 0.0,            *)
(* get_patient_history an empty mapping, get_patient_summary coverage    *)
(* 0.0, 0 sessions and an empty record; no store gets an entry.          *)
C20_UnknownIdLookups ==
    [][/\ (lastOp' = "get_facility_utilization" /\ ret'.arg \notin Stores(engine)[1])
             => (outcome' = "ok" /\ ret'.value = 0
                 /\ engine' = engine /\ Stores(engine') = Stores(engine))
       /\ (lastOp' = "get_patient_history" /\ ret'.arg \notin Stores(engine)[3])
             => (outcome' = "ok" /\ DOMAIN ret'.value = {}
                 /\ engine' = engine /\ Stores(engine') = Stores(engine))
       /\ (lastOp' = "get_patient_summary"
              /\ ret'.arg \notin (Stores(engine)[2] \cup Stores(engine)[3] \cup Stores(engine)[4]))
             => (outcome' = "ok"
                 /\ ret'.value.insurance_coverage = 0
                 /\ ret'.value.telemedicine_sessions = 0
                 /\ DOMAIN ret'.value.health_record = {}
                 /\ engine' = engine /\ Stores(engine') = Stores(engine))]_vars

C20_Witness ==
    /\ lastOp = "get_facility_utilization"
    /\ ret.arg = "f0"
    /\ ret.value = 0
    /\ Stores(engine)[1] = {"f1"}
    /\ Stores(engine)[4] = {"p1"}

(* C21: calculate_healthcare_quality returns a value in [0,1] for every  *)
(* registered facility with quality_score in [0,1], non-negative         *)
(* equipment counts (also none at all) and workers with performance in   *)
(* [0,1].                                                                *)
C21_QualityInUnitInterval ==
    (lastOp = "simulation.calculate_healthcare_quality" /\ outcome = "ok")
       => InUnitInterval(ret.value)

SeriesOfSimulation == {"facility_utilization", "healthcare_quality"}

(* C26: in HealthcareSystemSimulation the two series hold one point per  *)
(* simulated day: after every step() and run() that returned, each holds *)
(* as many points as days have elapsed, the i-th carrying the i-th day,  *)
(* so that a run over N whole days leaves N points and no point is       *)
(* replaced by a later step.                                             *)
C26_SimulationSeriesAppendOnly ==
    (lastOp \in {"simulation.step", "simulation.run"} /\ pc = "idle" /\ outcome = "ok")
       => \A m \in SeriesOfSimulation :
             /\ m \in DOMAIN simulation.metrics
             /\ Len(simulation.metrics[m]) = DaysElapsed(simulation)
             /\ \A i \in 1..Len(simulation.metrics[m]) :
                   simulation.metrics[m][i][1] = simulation.start_date + (i - 1) * Day

(* The per-facility estimate as C22 states it. *)
BlendedQuality(e, f) ==
    LET facility == e.infrastructure.facilities[f]
        workers == FacilityWorkers(e, f)
        counts == facility.equipment
    IN  IF workers = {} THEN facility.quality_score
        ELSE ( (SumOver([w \in workers |-> e.workforce.workers[w].performance_score], workers)
                   \div Cardinality(workers)) * 6
               + (IF DOMAIN counts = {} THEN Scale \div 2
                  ELSE (SumOver(counts, DOMAIN counts) * Scale) \div Cardinality(DOMAIN counts)) * 4 )
             \div 10

(* C22: the healthcare_quality value a step appends is the mean over the *)
(* registered facilities of mean(worker performance) x 0.6 +             *)
(* mean(equipment counts) x 0.4 for a facility with workers and of the   *)
(* facility's stored quality_score for a facility without.               *)
C22_BlendedQualityEstimate ==
    (lastOp = "step" /\ outcome = "ok" /\ DOMAIN Registered(engine) # {})
       => LastValue(engine.metrics.healthcare_quality) =
             SumOver([f \in DOMAIN Registered(engine) |-> BlendedQuality(engine, f)],
                     DOMAIN Registered(engine))
                \div Cardinality(DOMAIN Registered(engine))

LastPoint(series) == series[Len(series)]

(* C23: whenever the engine appends the day's facility_utilization       *)
(* point it appends the day's healthcare_quality point too, both dated   *)
(* current_date; the values are 0.0 and 0.0 without facilities, and      *)
(* otherwise the arithmetic means over all registered facilities of the  *)
(* utilization observed (for some noise drawn) and of the quality        *)
(* estimate.                                                             *)
C23_DailyMeans ==
    [][(engine'.metrics.facility_utilization # engine.metrics.facility_utilization)
          => LET ids == DOMAIN Registered(engine)
                 fu == engine'.metrics.facility_utilization
                 hq == engine'.metrics.healthcare_quality
             IN  /\ fu = Append(engine.metrics.facility_utilization, LastPoint(fu))
                 /\ hq = Append(engine.metrics.healthcare_quality, LastPoint(hq))
                 /\ LastPoint(fu)[1] = engine.current_date
                 /\ LastPoint(hq)[1] = engine.current_date
                 /\ IF ids = {}
                    THEN LastPoint(fu)[2] = 0 /\ LastPoint(hq)[2] = 0
                    ELSE /\ \E noise \in [ids -> NormalDraws] :
                               LastPoint(fu)[2] =
                                  SumOver([f \in ids |->
                                              Min(base_utilization(Registered(engine)[f]) + noise[f],
                                                  Scale)], ids)
                                     \div Cardinality(ids)
                         /\ LastPoint(hq)[2] =
                               SumOver([f \in ids |-> FacilityQuality(engine, f)], ids)
                                  \div Cardinality(ids)]_vars

C23_Witness ==
    /\ lastOp = "simulate_facility_operations"
    /\ DOMAIN Registered(engine) = {"f1", "f2"}
    /\ Len(engine.metrics.facility_utilization) = 1
    /\ LastValue(engine.metrics.facility_utilization) = Scale \div 2
    /\ LastValue(engine.metrics.healthcare_quality) = Scale \div 2

Sessions(e, p) == Get(e.digital_health.telemedicine_sessions, p, <<>>)

LastVisit(e, p) ==
    LET record == Get(e.digital_health.electronic_records, p, EmptyDict)
    IN  IF "last_visit" \in DOMAIN record THEN record["last_visit"] ELSE None

KnownPatients(e) ==
    DOMAIN e.financing.insurance_coverage \cup DOMAIN e.digital_health.telemedicine_sessions
        \cup DOMAIN e.digital_health.electronic_records

(* C24: a patient has a session exactly when the patient's record has a  *)
(* last_visit; last_visit is a date from start_date on and before        *)
(* current_date; the session count never exceeds the days elapsed; a     *)
(* call adds at most one session to a patient, and when it adds one the  *)
(* patient's last_visit becomes the day of that step, and otherwise the  *)
(* last_visit stays.                                                     *)
C24_SessionsAndLastVisit ==
    /\ [](\A p \in KnownPatients(engine) :
             /\ (Len(Sessions(engine, p)) >= 1) <=> (LastVisit(engine, p) # None)
             /\ LastVisit(engine, p) # None
                   => /\ LastVisit(engine, p)[1] = "iso"
                      /\ engine.start_date <= LastVisit(engine, p)[2]
                      /\ LastVisit(engine, p)[2] < engine.current_date
             /\ Len(Sessions(engine, p)) <= DaysElapsed(engine))
    /\ [][\A p \in KnownPatients(engine') :
             /\ Len(Sessions(engine', p)) <= Len(Sessions(engine, p)) + 1
             /\ IsPrefix(Sessions(engine, p), Sessions(engine', p))
             /\ IF Len(Sessions(engine', p)) = Len(Sessions(engine, p)) + 1
                THEN LastVisit(engine', p) = isoformat(engine.current_date)
                ELSE LastVisit(engine', p) = LastVisit(engine, p)]_vars

C24_Witness ==
    /\ lastOp = "step"
    /\ outcome = "ok"
    /\ Len(Sessions(engine, "p1")) = 1
    /\ LastVisit(engine, "p1") = isoformat(engine.start_date)
    /\ engine.current_date = engine.start_date + Day + Day

(* C25: the i-th point (from 0) of each of the four series is dated      *)
(* start_date + i days: no gap, no day twice, the same date at the same  *)
(* index of every series.                                                *)
C25_SeriesDates ==
    \A m \in MetricNames :
       \A i \in 1..Len(engine.metrics[m]) :
          engine.metrics[m][i][1] = engine.start_date + (i - 1) * Day

AllPrograms == TrainingCatalog \cup {"basic_healthcare"}

(* C27: the training store and the worker store have the same keys;      *)
(* every training list is duplicate-free, made of the five programs and  *)
(* of length 1 to 5; a step adds at most one program to a worker's list; *)
(* assign_training for an unregistered worker id changes nothing.        *)
C27_TrainingStore ==
    /\ [](/\ DOMAIN engine.workforce.training_programs = DOMAIN engine.workforce.workers
          /\ \A w \in DOMAIN engine.workforce.training_programs :
                /\ NoDuplicates(TrainingList(engine, w))
                /\ \A i \in 1..Len(TrainingList(engine, w)) :
                      TrainingList(engine, w)[i] \in AllPrograms
                /\ 1 <= Len(TrainingList(engine, w))
                /\ Len(TrainingList(engine, w)) <= 5)
    /\ [][(lastOp' = "step")
             => \A w \in DOMAIN engine.workforce.workers :
                   Len(TrainingList(engine', w)) <= Len(TrainingList(engine, w)) + 1]_vars
    /\ [][(lastOp' = "assign_training" /\ ret'.arg[1] \notin DOMAIN engine.workforce.workers)
             => engine' = engine]_vars

C27_Witness ==
    /\ lastOp = "step"
    /\ DOMAIN engine.workforce.workers = {"w1", "w2"}
    /\ Len(TrainingList(engine, "w1")) = 2
    /\ Len(TrainingList(engine, "w2")) = 2

(* C28: the electronic-record store has the keys of the coverage store   *)
(* and the session store has a subset of them; every point of            *)
(* digital_health_adoption is exactly 1.                                 *)
C28_AdoptionIsOne ==
    /\ DOMAIN engine.digital_health.electronic_records = DOMAIN CoverageStore(engine)
    /\ DOMAIN engine.digital_health.telemedicine_sessions \subseteq DOMAIN CoverageStore(engine)
    /\ \A i \in 1..Len(engine.metrics.digital_health_adoption) :
          engine.metrics.digital_health_adoption[i][2] = Scale

C28_Witness ==
    /\ lastOp = "step"
    /\ outcome = "ok"
    /\ DOMAIN CoverageStore(engine) = {"p1", "p2"}
    /\ DOMAIN engine.digital_health.telemedicine_sessions = {"p2"}
    /\ Len(engine.metrics.digital_health_adoption) = 1

StepFrame(e) ==
    <<e.start_date, e.end_date, e.locations, e.infrastructure, e.workforce.workers, e.financing>>

FloatEqual(a, b) == a # NaN /\ b # NaN /\ a = b

(* The values run() has appended to series m since it was entered. *)
AppendedByRun(m) ==
    [i \in (Len(run_call.metrics[m]) + 1)..Len(engine.metrics[m]) |-> engine.metrics[m][i][2]]

(* C29: step() and run() leave the dates of the range, the locations,    *)
(* the facilities, the workers, the coverage and the funding as they     *)
(* were; the healthcare_quality points a run() appends are all equal     *)
(* and so are its insurance_coverage points.                             *)
C29_StepFrame ==
    /\ [][(lastOp' \in {"step", "run"}) => StepFrame(engine') = StepFrame(engine)]_vars
    /\ [](lastOp = "run"
             => \A m \in {"healthcare_quality", "insurance_coverage"} :
                   \A i, j \in DOMAIN AppendedByRun(m) :
                      i # j => FloatEqual(AppendedByRun(m)[i], AppendedByRun(m)[j]))

C29_Witness ==
    /\ RunReturned
    /\ outcome = "ok"
    /\ run_call.steps = 2
    /\ Len(engine.metrics.insurance_coverage) = 2
    /\ Len(Sessions(engine, "p1")) = 2

(* C30: add_healthcare_worker for an id that is registered returns       *)
(* normally and leaves that worker with the training list                *)
(* [basic_healthcare], whatever the list held; the lists of the other    *)
(* workers stay.                                                         *)
C30_ReRegistrationResetsTraining ==
    [][(lastOp' = "add_healthcare_worker" /\ ret'.arg.id \in DOMAIN engine.workforce.workers)
          => /\ outcome' = "ok"
             /\ TrainingList(engine', ret'.arg.id) = <<"basic_healthcare">>
             /\ DOMAIN engine'.workforce.workers = DOMAIN engine.workforce.workers
             /\ \A w \in DOMAIN engine.workforce.workers \ {ret'.arg.id} :
                   TrainingList(engine', w) = TrainingList(engine, w)]_vars

C30_Witness ==
    /\ lastOp = "add_healthcare_worker"
    /\ ret.arg.id = "w1"
    /\ ret.registered
    /\ ret.had = <<"basic_healthcare", "emergency_response">>
    /\ Len(engine.metrics.facility_utilization) = 1
    /\ TrainingList(engine, "w1") = <<"basic_healthcare">>

====
